---- MODULE Spec2Model ----
(***************************************************************************)
(* PngSecret (src/main.rs): LSB steganography over the channel samples of  *)
(* an RGBA image.  The model follows one image through `main`: the encode  *)
(* path (PngSecretWriter::new, NaiveEncoder::encode, write_image) and the  *)
(* decode path (PngSecretReader::new, read_image), the decode path being   *)
(* runnable on the input image as opened or on the image an encode run has *)
(* saved.  The image codec is an external collaborator; a successful save  *)
(* followed by image::open is lossless on RGBA8 samples (PNG).             *)
(***************************************************************************)
EXTENDS Integers, Sequences, FiniteSets, TLC

\* ------------------------------------------------------------------ bounds
\* Largest width*height of the enumerated input images.
MaxPixels == 6
\* Longest enumerated secret (bytes, sentinel not counted).
MaxLen == 2
\* Most NaiveEncoder::encode calls on one encoder.
MaxEncodes == 2

\* Byte values the enumerated secrets are made of: the zero byte, 'H', 0xFF.
ByteVals == {0, 72, 255}

\* The spec's concrete scenario: "Hi" into a 4x4 image of 0xFF samples.
HiMessage == <<72, 105>>

\* RGBA pixels the enumerated images are made of: one with all LSBs zero and
\* one with mixed LSBs, both with differing upper bits.
PixelVals == {<<0, 2, 254, 128>>, <<254, 1, 128, 7>>}

Msgs == UNION {[1..n -> ByteVals] : n \in 0..MaxLen} \cup {HiMessage}

\* Width and height of the enumerated images (a decoded image has at least
\* one pixel).
Dims == {d \in (1..MaxPixels) \X (1..MaxPixels) : d[1] * d[2] <= MaxPixels}

\* RgbaImage's sample container: pixels in raster order, R,G,B,A within each.
Samples(px) == [i \in 1..(4 * Len(px)) |-> px[((i - 1) \div 4) + 1][((i - 1) % 4) + 1]]

HiImage == [width |-> 4, height |-> 4, buffer |-> [i \in 1..64 |-> 255]]

\* What image::open(..).into_rgba8() can hand to the Writer or the Reader:
\* width * height pixels of four samples each.
ImagesOf(d) ==
    {[width |-> d[1], height |-> d[2], buffer |-> Samples(px)] :
        px \in [1..(d[1] * d[2]) -> PixelVals]}

InputImages == UNION {ImagesOf(d) : d \in Dims} \cup {HiImage}

\* ------------------------------------------------------- u32 arithmetic
\* A u32 is kept as <<high half, low half>> in base 2^16, so that the
\* wrapped-around values are representable.
Half == 2 ^ 16

U32(n) == <<n \div Half, n % Half>>

\* u32 subtraction as Rust computes it: the wrapped value and whether the
\* subtraction overflowed (a panic when overflow checks are compiled in,
\* the wrapped value otherwise).
U32Sub(a, b) ==
    LET lo     == a[2] - b[2]
        borrow == IF lo < 0 THEN 1 ELSE 0
        hi     == a[1] - b[1] - borrow
    IN  [val      |-> <<IF hi < 0 THEN hi + Half ELSE hi,
                        IF lo < 0 THEN lo + Half ELSE lo>>,
         overflow |-> hi < 0]

\* width * height in u32.  Both factors of every modelled image are below
\* 2^16, where the u32 product cannot wrap.
PixelCount(w, h) == w * h

\* Mutant: the limit printed without the halving (width * height - 1).
LimitExprNoHalving(w, h) == U32Sub(U32(PixelCount(w, h)), U32(1))

\* The "message length limit" expression of PngSecretWriter::new:
\* img.width() * img.height() / 2 - 1.
LimitExpr(w, h) == U32Sub(U32(PixelCount(w, h) \div 2), U32(1))

\* ------------------------------------------------------- pure functions
RECURSIVE BitsLoop(_, _, _)
\* The loop of byte_to_8bits: bits[7 - i] = x % 2; x /= 2, for i in 0..8.
BitsLoop(x, i, bits) ==
    IF i = 8 THEN bits
    ELSE BitsLoop(x \div 2, i + 1, [bits EXCEPT ![(7 - i) + 1] = x % 2])

\* Mutant: the bits stored least significant first (bits[i] = x % 2).
byte_to_8bits_lsb_first(byte) == [j \in 1..8 |-> (byte \div (2 ^ (j - 1))) % 2]

byte_to_8bits(byte) == BitsLoop(byte, 0, [j \in 1..8 |-> 0])

RECURSIVE FlatMapBits(_)
\* text.iter().flat_map(byte_to_8bits)
FlatMapBits(text) ==
    IF text = <<>> THEN <<>>
    ELSE byte_to_8bits(Head(text)) \o FlatMapBits(Tail(text))

RECURSIVE WriteLoopPadZero(_, _, _)
\* Mutant: once the bits run out the loop goes on, writing zero bits.
WriteLoopPadZero(buf, bits, i) ==
    IF i > Len(buf) THEN buf
    ELSE LET t == IF i <= Len(bits) THEN bits[i] ELSE 0
         IN  WriteLoopPadZero([buf EXCEPT ![i] = (buf[i] - (buf[i] % 2)) + t], bits, i + 1)

RECURSIVE WriteLoop(_, _, _)
\* The sample loop of write_image: zip the samples with the bit iterator,
\* *i = *i - (*i % 2) + t, and break when the bits run out.  The u8
\* expression cannot overflow: the even part is at most 254.
WriteLoop(buf, bits, i) ==
    IF i > Len(buf) THEN buf
    ELSE IF i <= Len(bits)
         THEN WriteLoop([buf EXCEPT ![i] = (buf[i] - (buf[i] % 2)) + bits[i]], bits, i + 1)
         ELSE buf

RECURSIVE ReadLoopOkAtEnd(_, _, _, _, _)
\* Mutant: running out of samples returns the bytes gathered so far.
ReadLoopOkAtEnd(buf, i, count, sum, message) ==
    IF i > Len(buf) THEN [tag |-> "Ok", msg |-> message]
    ELSE LET sum1   == sum * 2 + (buf[i] % 2)
             count1 == count + 1
         IN  IF count1 = 8
             THEN IF sum1 = 0
                  THEN [tag |-> "Ok", msg |-> message]
                  ELSE ReadLoopOkAtEnd(buf, i + 1, 0, 0, Append(message, sum1))
             ELSE ReadLoopOkAtEnd(buf, i + 1, count1, sum1, message)

RECURSIVE ReadLoopPushFirst(_, _, _, _, _)
\* Mutant: the assembled byte is pushed before it is tested for zero.
ReadLoopPushFirst(buf, i, count, sum, message) ==
    IF i > Len(buf) THEN [tag |-> "Err", msg |-> <<>>]
    ELSE LET sum1   == sum * 2 + (buf[i] % 2)
             count1 == count + 1
         IN  IF count1 = 8
             THEN IF sum1 = 0
                  THEN [tag |-> "Ok", msg |-> Append(message, sum1)]
                  ELSE ReadLoopPushFirst(buf, i + 1, 0, 0, Append(message, sum1))
             ELSE ReadLoopPushFirst(buf, i + 1, count1, sum1, message)

RECURSIVE ReadLoopPartialGroup(_, _, _, _, _)
\* Mutant: a trailing partial group of zero LSBs is taken for the sentinel.
ReadLoopPartialGroup(buf, i, count, sum, message) ==
    IF i > Len(buf)
    THEN IF count > 0 /\ sum = 0
         THEN [tag |-> "Ok", msg |-> message]
         ELSE [tag |-> "Err", msg |-> <<>>]
    ELSE LET sum1   == sum * 2 + (buf[i] % 2)
             count1 == count + 1
         IN  IF count1 = 8
             THEN IF sum1 = 0
                  THEN [tag |-> "Ok", msg |-> message]
                  ELSE ReadLoopPartialGroup(buf, i + 1, 0, 0, Append(message, sum1))
             ELSE ReadLoopPartialGroup(buf, i + 1, count1, sum1, message)

RECURSIVE ReadLoop(_, _, _, _, _)
\* The sample loop of read_image with its locals message, count and sum.
ReadLoop(buf, i, count, sum, message) ==
    IF i > Len(buf) THEN [tag |-> "Err", msg |-> <<>>]
    ELSE LET sum1   == sum * 2 + (buf[i] % 2)
             count1 == count + 1
         IN  IF count1 = 8
             THEN IF sum1 = 0
                  THEN [tag |-> "Ok", msg |-> message]
                  ELSE ReadLoop(buf, i + 1, 0, 0, Append(message, sum1))
             ELSE ReadLoop(buf, i + 1, count1, sum1, message)

\* NaiveDecoder::decode: the identity.
decode(seq) == seq

read_image(buf) ==
    LET r == ReadLoop(buf, 1, 0, 0, <<>>)
    IN  IF r.tag = "Ok" THEN [tag |-> "Ok", msg |-> decode(r.msg)] ELSE r

\* Mutant: the new bytes are appended to the text already stored.
NaiveEncodeKeep(old, seq) == old \o Append(seq, 0)

\* The body of NaiveEncoder::encode on the field `text`:
\* self.text = seq.to_vec(); self.text.push(0).
NaiveEncode(old, seq) == Append(seq, 0)

\* The capacity test of write_image.
CapacityWarning(w, h, text) == PixelCount(w, h) < Len(text)

\* ------------------------------------------------------------------ state
VARIABLES
    pc,         \* position in main: start, writer, written, reader, done, panicked
    silent,     \* opt.silent / SILENT
    width,      \* image width
    height,     \* image height
    input,      \* the samples of the image as opened from opt.input
    buffer,     \* the Writer's / Reader's raster buffer
    secret,     \* the bytes last handed to encode (opt.text)
    text,       \* NaiveEncoder.text
    encodes,    \* encode calls made on the encoder
    limit,      \* the printed message length limit: <<>> or a u32
    warned,     \* "You are writing more message than the image could support!"
    saved,      \* outcome of buffer.save: none, ok, fail
    result      \* what read_image returned: none, Ok(msg), Err

vars == <<pc, silent, width, height, input, buffer, secret, text, encodes,
          limit, warned, saved, result>>

NoResult == [tag |-> "none", msg |-> <<>>]

Init ==
    /\ pc = "start"
    /\ silent \in BOOLEAN
    /\ \E im \in InputImages :
          /\ width = im.width
          /\ height = im.height
          /\ input = im.buffer
          /\ buffer = im.buffer
    /\ secret = <<>>
    /\ text = <<>>
    /\ encodes = 0
    /\ limit = <<>>
    /\ warned = FALSE
    /\ saved = "none"
    /\ result = NoResult

\* PngSecretWriter::new (opt.encode set).  The limit expression is only
\* evaluated when the line is printed.  Its overflow aborts the process in a
\* build with overflow checks and wraps in one without.
WriterNew ==
    /\ pc = "start"
    /\ \E checks \in BOOLEAN :
          IF silent
          THEN /\ pc' = "writer"
               /\ limit' = <<>>
          ELSE IF LimitExpr(width, height).overflow /\ checks
               THEN /\ pc' = "panicked"
                    /\ limit' = <<>>
               ELSE /\ pc' = "writer"
                    /\ limit' = LimitExpr(width, height).val
    /\ UNCHANGED <<silent, width, height, input, buffer, secret, text, encodes,
                   warned, saved, result>>

\* NaiveEncoder::encode.
Encode(seq) ==
    /\ pc = "writer"
    /\ encodes < MaxEncodes
    /\ secret' = seq
    /\ text' = NaiveEncode(text, seq)
    /\ encodes' = encodes + 1
    /\ UNCHANGED <<pc, silent, width, height, input, buffer, limit, warned,
                   saved, result>>

\* PngSecretWriter::write_image, the save included.
WriteImage ==
    /\ pc = "writer"
    /\ encodes >= 1
    /\ warned' = CapacityWarning(width, height, text)
    /\ buffer' = WriteLoop(buffer, FlatMapBits(text), 1)
    /\ \E ok \in BOOLEAN : saved' = IF ok THEN "ok" ELSE "fail"
    /\ pc' = "written"
    /\ UNCHANGED <<silent, width, height, input, secret, text, encodes, limit,
                   result>>

\* PngSecretReader::new: a decode run, on the input image or on the image
\* an encode run has saved.
ReaderNew ==
    /\ \/ pc = "start"
       \/ pc = "written" /\ saved = "ok"
    /\ pc' = "reader"
    /\ UNCHANGED <<silent, width, height, input, buffer, secret, text, encodes, limit,
                   warned, saved, result>>

\* PngSecretReader::read_image.
ReadImage ==
    /\ pc = "reader"
    /\ result' = read_image(buffer)
    /\ pc' = "done"
    /\ UNCHANGED <<silent, width, height, input, buffer, secret, text, encodes, limit,
                   warned, saved>>

Next ==
    \/ WriterNew
    \/ \E seq \in Msgs : Encode(seq)
    \/ WriteImage
    \/ ReaderNew
    \/ ReadImage

Spec == Init /\ [][Next]_vars

\* ============================================================== properties
\* Vocabulary of the claims, stated on the samples and bytes themselves.

\* write_image has run on the buffer.
Written == saved # "none"

\* A decode run on the image a successful encode run saved has finished.
RoundTripDone == pc = "done" /\ saved = "ok"

ZeroFree(m) == \A i \in 1..Len(m) : m[i] # 0

Min(a, b) == IF a <= b THEN a ELSE b

\* Bit i (from 0) of the MSB-first bitstream of the byte sequence t.
StreamBit(t, i) == (t[(i \div 8) + 1] \div (2 ^ (7 - (i % 8)))) % 2

\* The byte the LSBs of the g-th (from 0) aligned group of 8 samples spell,
\* most significant bit first.
GroupByte(buf, g) ==
    LET lsb(j) == buf[8 * g + j] % 2
    IN  128 * lsb(1) + 64 * lsb(2) + 32 * lsb(3) + 16 * lsb(4)
        + 8 * lsb(5) + 4 * lsb(6) + 2 * lsb(7) + lsb(8)

\* The aligned groups of 8 samples whose LSBs are all zero.
ZeroGroups(buf) == {g \in 0..((Len(buf) \div 8) - 1) : GroupByte(buf, g) = 0}

FirstOf(S) == CHOOSE g \in S : \A k \in S : g <= k

Ok(m) == [tag |-> "Ok", msg |-> m]

\* Index (from 0) of the first zero byte of m, for m holding one.
FirstZero(m) == FirstOf({k \in 0..(Len(m) - 1) : m[k + 1] = 0})

\* a <= b on u32 halves.
LeqU32(a, b) == a[1] < b[1] \/ (a[1] = b[1] /\ a[2] <= b[2])

\* C1: round trip.  A zero-free secret m encoded and written into a buffer
\* of at least 8*(len(m)+1) samples is read back as Ok(m), the empty secret
\* included.
C1_RoundTrip ==
    (RoundTripDone /\ ZeroFree(secret) /\ Len(input) >= 8 * (Len(secret) + 1))
        => result = Ok(secret)

\* C1 witness: a non-empty zero-free secret has come back from a buffer that
\* was not uniform before the write.
C1_Witness ==
    /\ RoundTripDone
    /\ secret = <<72, 255>>
    /\ \E i, j \in 1..Len(input) : input[i] % 2 # input[j] % 2
    /\ result = Ok(secret)

\* C2 (as claimed): a bitstream exactly as long as the buffer is written
\* without a capacity report and reaches the LSB of every sample; a longer
\* one is reported as a capacity violation.
C2_CapacityBoundary ==
    Written =>
        LET L == 8 * Len(text)
            N == Len(buffer)
        IN  /\ L = N => /\ ~warned
                        /\ \A i \in 1..N : buffer[i] % 2 = StreamBit(text, i - 1)
            /\ L > N => warned

\* C3: sentinel invariant.  After any encode calls the stored text is the
\* last secret followed by exactly one zero byte, and its bitstream has
\* 8*(len(m)+1) bits.
C3_Sentinel ==
    encodes >= 1 =>
        /\ Len(text) = Len(secret) + 1
        /\ \A i \in 1..Len(secret) : text[i] = secret[i]
        /\ text[Len(text)] = 0
        /\ Len(FlatMapBits(text)) = 8 * (Len(secret) + 1)

\* C3 witness: the empty secret encoded by a second call on the same encoder.
C3_Witness == encodes >= 2 /\ secret = <<>> /\ text = <<0>>

\* C4 (as claimed): reading a buffer write_image never touched fails.
C4_UntouchedIsErr == (pc = "done" /\ ~Written) => result.tag = "Err"

\* C4 (amended): reading a buffer write_image never touched fails when no
\* aligned group of 8 samples of it has all LSBs zero.
C4_UntouchedNoZeroGroupIsErr ==
    (pc = "done" /\ ~Written /\ ZeroGroups(buffer) = {}) => result.tag = "Err"

\* C4 witness: an untouched buffer of at least one full group was read and
\* no message found.
C4_Witness ==
    pc = "done" /\ ~Written /\ Len(buffer) >= 8 /\ result.tag = "Err"

\* C5: early termination.  A secret whose first zero byte is at index k,
\* written into at least 8*(k+1) samples, is read back as its first k bytes.
C5_EarlyTermination ==
    (RoundTripDone /\ ~ZeroFree(secret)) =>
        LET k == FirstZero(secret)
        IN  Len(input) >= 8 * (k + 1) => result = Ok(SubSeq(secret, 1, k))

\* C5 witness: a secret holding a zero byte after a non-zero one came back
\* cut at the zero byte.
C5_Witness ==
    /\ RoundTripDone
    /\ secret = <<72, 0>>
    /\ result = Ok(<<72>>)

\* C6: frame of write_image.  The first min(L, N) samples keep their upper
\* seven bits and take the bitstream's bits as LSBs; the others are as they
\* were.  In the "Hi" scenario the 24 LSBs are those of 0x48 0x69 0x00 and
\* the other 40 samples stay 0xFF.
C6_WriteFrame ==
    Written =>
        LET L == 8 * Len(text)
            N == Len(input)
        IN  /\ Len(buffer) = N
            /\ \A i \in 1..N :
                  IF i <= Min(L, N)
                  THEN /\ buffer[i] \div 2 = input[i] \div 2
                       /\ buffer[i] % 2 = StreamBit(text, i - 1)
                  ELSE buffer[i] = input[i]
            /\ (secret = HiMessage /\ input = [i \in 1..64 |-> 255]) =>
                  /\ [i \in 1..24 |-> buffer[i] % 2]
                       = <<0,1,0,0,1,0,0,0, 0,1,1,0,1,0,0,1, 0,0,0,0,0,0,0,0>>
                  /\ \A i \in 25..64 : buffer[i] = 255

\* C6 witness: the "Hi" scenario has been written.
C6_Witness ==
    /\ Written
    /\ secret = HiMessage
    /\ input = [i \in 1..64 |-> 255]
    /\ buffer[2] = 255 /\ buffer[1] = 254

\* C7: read_image fails exactly when no aligned group of 8 samples has all
\* LSBs zero; otherwise it returns the bytes of the groups before the first
\* such group.  Trailing samples that do not fill a group play no part.
C7_ReadExact ==
    pc = "done" =>
        LET Z == ZeroGroups(buffer)
        IN  /\ result.tag = "Err" <=> Z = {}
            /\ Z # {} => result = Ok([g \in 1..FirstOf(Z) |-> GroupByte(buffer, g - 1)])

\* C7 witness: a buffer ending in a half group of zero LSBs, with no full
\* zero group, was read and no message found.
C7_Witness ==
    /\ pc = "done"
    /\ Len(buffer) = 12
    /\ \A i \in 9..12 : buffer[i] % 2 = 0
    /\ result.tag = "Err"

\* C8 (as claimed): when write_image's capacity test stays silent, the
\* buffer holds the whole bitstream, sentinel included.
C8_CheckConservative ==
    (Written /\ ~warned) =>
        /\ 8 * Len(text) <= Len(buffer)
        /\ \A i \in 1..(8 * Len(text)) :
              i <= Len(buffer) /\ buffer[i] % 2 = StreamBit(text, i - 1)

\* C9 (as claimed): a non-silent encode run never aborts in the limit
\* arithmetic, and the limit it prints is width*height/2 - 1, not a
\* wrapped-around value.
C9_NoArithmeticCrash ==
    /\ pc # "panicked"
    /\ limit # <<>> =>
          /\ (width * height) \div 2 >= 1
          /\ limit = <<(((width * height) \div 2) - 1) \div Half,
                       (((width * height) \div 2) - 1) % Half>>

\* C10: the printed limit is exact.  With width*height >= 2 and a zero-free
\* secret m, the round trip returns Ok(m) exactly when len(m) is at most the
\* limit printed by the encode run.
C10_LimitExact ==
    (RoundTripDone /\ ~silent /\ width * height >= 2 /\ ZeroFree(secret)) =>
        (result = Ok(secret) <=> LeqU32(<<0, Len(secret)>>, limit))

\* C10 witness: a secret one byte longer than the printed limit was not
\* recovered.
C10_Witness ==
    /\ RoundTripDone /\ ~silent /\ width * height >= 2 /\ ZeroFree(secret)
    /\ limit = <<0, Len(secret) - 1>>
    /\ result # Ok(secret)

====
